---- MODULE Spec2Model ----
(***************************************************************************)
(* A model of ln-regtest-rs: the Lightning client adapters (CLN and LND),  *)
(* their convergence polling loops, the status normalisation, the balance  *)
(* aggregation, the connection-handle lock, the amounts of the requests    *)
(* built by create_invoice and open_channel, and the process supervisors.  *)
(*                                                                         *)
(* Sources: src/src/ln_client/cln_client.rs (the LightningClient impl of   *)
(* ClnClient), src/src/cln_client.rs (the older inherent ClnClient, whose  *)
(* wait_chain_sync and get_balance bodies are the same),                   *)
(* src/src/lnd_client.rs (LndClient), src/src/lnd.rs (Lnd) and             *)
(* src/src/bitcoind.rs (Bitcoind).                                         *)
(***************************************************************************)
EXTENDS Integers, Sequences, FiniteSets, TLC

(***************************************************************************)
(* Bounds of the model.                                                    *)
(***************************************************************************)
NumTasks == 2
MaxChannels == 2
\* How many tasks may be inside a wait_* operation at the same time.
MaxPollers == 1
\* Node processes one supervisor spawns in its life.
MaxSpawns == 2
\* Distinct payment hashes, and records a backend holds, in a status check.
NumHashes == 2
MaxRecords == 2
\* Output records and channel records of one ListFunds response.
MaxOutputs == 2
MaxFundChannels == 1

(***************************************************************************)
(* Program constants.                                                      *)
(***************************************************************************)
\* `while count < 100` (ln_client/cln_client.rs:344, :361; lnd_client.rs:198, :230)
MaxAttempts == 100
\* `sleep(Duration::from_secs(2))` (ln_client/cln_client.rs:353, :386)
SleepSecs == 2

Tasks == 1..NumTasks
Adapters == {"CLN", "LND"}

(***************************************************************************)
(* The operations of an adapter, under the names of the LightningClient    *)
(* trait.  LndClient has the same operations under its own names           *)
(* (get_new_address, connect, get_balance, check_incoming_invoice,         *)
(* check_outgoing_invoice) and has no get_connect_info and no              *)
(* list_transactions.  The two wait_* operations loop; every other         *)
(* operation is one lock / call / match sequence.                          *)
(***************************************************************************)
PollOps == {"wait_chain_sync", "wait_channels_active"}

SingleOps ==
    {"get_info", "list_transactions", "list_channels", "get_connect_info",
     "get_new_onchain_address", "connect_peer", "open_channel", "balance",
     "create_invoice", "pay_invoice", "check_incoming_payment_status",
     "check_outgoing_payment_status"}

Ops == PollOps \cup SingleOps

OpsOf(a) ==
    IF a = "CLN" THEN Ops ELSE Ops \ {"get_connect_info", "list_transactions"}

\* The LND operations that `.unwrap()` the transport result instead of `?`.
LndUnwrapOps ==
    {"create_invoice", "check_incoming_payment_status",
     "check_outgoing_payment_status"}

(***************************************************************************)
(* The arguments of a call, by what the adapter's conversions make of      *)
(* them: "valid", "malformed" (a peer id or payment hash that does not     *)
(* parse) or "overflow" (a satoshi amount whose product with 1000 exceeds  *)
(* 64 bits).                                                               *)
(***************************************************************************)
\* CLN: PublicKey::from_str(peer_id)? and Amount::from_sat in open_channel
\* (ln_client/cln_client.rs:189-192), Amount::from_sat in create_invoice
\* (:276), payment_hash.parse()? in check_outgoing_payment_status (:437).
\* LND: hex::decode(peer_id)? in open_channel (lnd_client.rs:107),
\* amount * 1_000 in create_invoice (:156), hex::decode(payment_hash)? in
\* check_incoming_invoice (:246).
ArgsOf(a, o) ==
    {"valid"} \cup
    (IF a = "CLN"
     THEN CASE o = "open_channel" -> {"malformed", "overflow"}
            [] o = "create_invoice" -> {"overflow"}
            [] o = "check_outgoing_payment_status" -> {"malformed"}
            [] OTHER -> {}
     ELSE CASE o = "open_channel" -> {"malformed"}
            [] o = "create_invoice" -> {"overflow"}
            [] o = "check_incoming_payment_status" -> {"malformed"}
            [] OTHER -> {})

\* CLN converts while it builds the request, after lock().await; LND builds
\* the request before it takes the lock.
ConvertsUnderLock(a, o) == a = "CLN"

VARIABLES
    adapter,      \* which adapter the instance under test is
    lock,         \* the tasks holding the guard of the Arc<Mutex<..>>: none or one
    inflight,     \* the tasks whose request has been sent and not yet answered
    pc,           \* per task: "idle", "acquire", "await", "sleep", "done"
    op,           \* per task: the operation it runs ("none" when idle)
    args,         \* per task: whether the arguments of the call convert
    count,        \* per task: the loop counter of a wait_* operation
    attempts,     \* per task: backend requests sent by the current call
    slept,        \* per task: seconds slept by the current call
    lastResp,     \* per task: the response of the attempt just made
    result,       \* per task: "none", "Ok", "Err", "Timeout", "Panic"
    neverSynced,  \* per task: no node-info response of this call reported synced
    query,        \* status check: the call being made
    invoiceDb,    \* status check: the backend's invoice record per hash
    paymentDb,    \* status check: the backend's outgoing payment records
    ret,          \* status check: what the call returned
    funds,        \* balance: the ListFunds response being aggregated
    bpc,          \* balance: position in the aggregation
    idx,          \* balance: records of the current list already accumulated
    acc,          \* balance: the running totals
    overflowChecks, \* whether the build panics on integer overflow (debug) or wraps
    conv,         \* amounts: the request being built from a call's arguments
    supervisor,   \* supervisor: which one, "Lnd" or "Bitcoind"
    child,        \* supervisor: the process whose handle is held: none or one
    spawned,      \* supervisor: how many node processes have been spawned
    killed,       \* supervisor: the processes kill() has been called on
    outcome,      \* supervisor: the last call, its result, and the call before
    alive         \* supervisor: constructed and not yet dropped

pollVars == <<adapter, lock, inflight, pc, op, args, count, attempts, slept, lastResp,
              result, neverSynced>>
statusVars == <<query, invoiceDb, paymentDb, ret>>
balanceVars == <<funds, bpc, idx, acc, overflowChecks>>
vars == <<adapter, lock, inflight, pc, op, args, count, attempts, slept, lastResp,
          result, neverSynced, query, invoiceDb, paymentDb, ret, funds, bpc,
          idx, acc, overflowChecks, conv, supervisor, child, spawned, killed,
          outcome, alive>>
superVars == <<supervisor, child, spawned, killed, outcome, alive>>
sideVars == <<conv, superVars>>

(***************************************************************************)
(* Responses of the backend.                                               *)
(***************************************************************************)
NoResp == [kind |-> "None"]
TransportError == [kind |-> "TransportError"]
WrongKind == [kind |-> "WrongKind"]

\* warning_* is TRUE when the Option is Some(..), FALSE when it is None.
ClnGetinfoResponses ==
    {[kind |-> "Getinfo", warning_lightningd_sync |-> l, warning_bitcoind_sync |-> b] :
        l \in BOOLEAN, b \in BOOLEAN}

LndGetInfoResponses ==
    {[kind |-> "GetInfo", synced_to_chain |-> s] : s \in BOOLEAN}

\* A channel list: the `active` flag of each channel.
ChannelLists == UNION {[1..n -> BOOLEAN] : n \in 0..MaxChannels}

Inactive(chans) == SelectSeq(chans, LAMBDA c : ~c)

\* CLN's ListchannelsRequest has no filter: the response holds every channel.
\* LND's ListChannelsRequest is sent with inactive_only: true, so the node
\* answers with the inactive channels only.  `known` records the node's full
\* channel list at the time of the request.
ReportedChannels(a, chans) == IF a = "LND" THEN Inactive(chans) ELSE chans

ListChannelsResponses(a) ==
    {[kind |-> "ListChannels", channels |-> ReportedChannels(a, chans), known |-> chans] :
        chans \in ChannelLists}

\* The answer to a single-shot request: the expected kind, the expected kind
\* with the wanted field or record absent, another kind, or no answer at all.
SingleResponses(a) ==
    {[kind |-> "Expected"], [kind |-> "Absent"], TransportError}
        \cup (IF a = "CLN" THEN {WrongKind} ELSE {})

Responses(a, o) ==
    CASE o = "wait_chain_sync" ->
            (IF a = "CLN" THEN ClnGetinfoResponses \cup {WrongKind}
                          ELSE LndGetInfoResponses) \cup {TransportError}
      [] o = "wait_channels_active" ->
            ListChannelsResponses(a) \cup {TransportError}
                \cup (IF a = "CLN" THEN {WrongKind} ELSE {})
      [] OTHER -> SingleResponses(a)

IsFailure(r) == r.kind \in {"TransportError", "WrongKind"}

(***************************************************************************)
(* The predicates of the two polling loops.                                *)
(***************************************************************************)
\* ln_client/cln_client.rs:347 (and cln_client.rs:290):
\*   info.warning_lightningd_sync.is_none() || info.warning_bitcoind_sync.is_none()
ClnChainSynced(r) ==
    (~r.warning_lightningd_sync) \/ (~r.warning_bitcoind_sync)

\* lnd_client.rs:233: info.synced_to_chain
LndChainSynced(r) == r.synced_to_chain

\* A slip in the filter: success as soon as one channel is active.
ChannelsSettledAnyActive(a, r) ==
    IF a = "CLN" THEN r.channels = <<>> \/ (\E i \in 1..Len(r.channels) : r.channels[i])
                 ELSE Len(r.channels) = 0

\* ln_client/cln_client.rs:373-379: the channels with !c.active, is_empty();
\* lnd_client.rs:214: pending.channels.is_empty()
ChannelsSettled(a, r) ==
    IF a = "CLN" THEN Len(Inactive(r.channels)) = 0
                 ELSE Len(r.channels) = 0

PollDone(a, o, r) ==
    CASE o = "wait_chain_sync" ->
            IF a = "CLN" THEN ClnChainSynced(r) ELSE LndChainSynced(r)
      [] o = "wait_channels_active" -> ChannelsSettled(a, r)
      [] OTHER -> FALSE

\* What the node itself reports: synced means no sync warning is outstanding.
NodeSynced(r) ==
    CASE r.kind = "Getinfo" ->
            (~r.warning_lightningd_sync) /\ (~r.warning_bitcoind_sync)
      [] r.kind = "GetInfo" -> r.synced_to_chain
      [] OTHER -> FALSE

(***************************************************************************)
(* The connection-handle lock.                                             *)
(***************************************************************************)
\* A handle shared without the mutex: a request never waits.
LockIgnored == TRUE

\* `self.client.lock().await`: the guard is granted when nobody holds it.
LockFree == lock = {}

\* Whether the guard outlives the response into the 2-second sleep.  In CLN's
\* wait_channels_active the guard is the named local `cln_client` of the loop
\* body (ln_client/cln_client.rs:362), dropped at the end of the iteration,
\* after the sleep.  Everywhere else the guard is a temporary of the call
\* statement (get_info, lnd_client.rs:199-212) and is dropped with it.
KeepsLockInSleep(a, o) == a = "CLN" /\ o = "wait_channels_active"

(***************************************************************************)
(* The result of a single-shot operation, from the kind of the answer.     *)
(***************************************************************************)
SingleResult(a, o, r) ==
    IF a = "CLN"
    THEN CASE r.kind = "TransportError" -> "Err"
           [] r.kind = "WrongKind" ->
                \* list_transactions prints whatever came and returns Ok(()).
                IF o = "list_transactions" THEN "Ok" ELSE "Err"
           [] r.kind = "Absent" ->
                \* binding / address / port, bech32, or the invoice is missing
                IF o \in {"get_connect_info", "get_new_onchain_address",
                          "check_incoming_payment_status"}
                THEN "Err" ELSE "Ok"
           [] OTHER -> "Ok"
    ELSE CASE r.kind = "TransportError" ->
                IF o \in LndUnwrapOps THEN "Panic" ELSE "Err"
           [] r.kind = "Absent" ->
                \* no invoice: lookup_invoice fails and is unwrapped;
                \* no payment: bail!("Could not find invoice")
                IF o = "check_incoming_payment_status" THEN "Panic"
                ELSE IF o = "check_outgoing_payment_status" THEN "Err"
                ELSE "Ok"
           [] OTHER -> "Ok"

(***************************************************************************)
(* Unsigned 64-bit amounts.  An Amount is its msat value as four 16-bit    *)
(* limbs, most significant first, so that the additions keep their width.  *)
(***************************************************************************)
LimbBase == 2^16

U64 == [1..4 -> 0..(LimbBase - 1)]

\* A small value, below 2^16 msat.
Msat(n) == <<0, 0, 0, n>>
\* 2^63 msat.
TwoTo63 == <<2^15, 0, 0, 0>>
Zero == Msat(0)

\* a + b over the naturals: the low 64 bits and the carry out of them.
AddWithCarry(a, b) ==
    LET s4 == a[4] + b[4]
        s3 == a[3] + b[3] + (s4 \div LimbBase)
        s2 == a[2] + b[2] + (s3 \div LimbBase)
        s1 == a[1] + b[1] + (s2 \div LimbBase)
    IN  [sum |-> <<s1 % LimbBase, s2 % LimbBase, s3 % LimbBase, s4 % LimbBase>>,
         carry |-> s1 \div LimbBase]

\* a <= b as unsigned 64-bit values.
LessEq(a, b) ==
    \/ a = b
    \/ \E i \in 1..4 : a[i] < b[i] /\ \A j \in 1..(i - 1) : a[j] = b[j]

\* Option<u64>: None, and Some(v).
None == [some |-> FALSE, value |-> Zero]
Some(v) == [some |-> TRUE, value |-> v]

NoConv == [op |-> "none"]

NoFunds == [outputs |-> <<>>, channels |-> <<>>]
ZeroTotals == [on_chain_total |-> Zero, on_chain_spendable |-> Zero, ln |-> Zero]

(***************************************************************************)
(* Initial state: an adapter instance, no task running.                    *)
(***************************************************************************)
IdleStatus ==
    /\ query = [op |-> "none", payment_hash |-> 0, net |-> "ok"]
    /\ invoiceDb = <<>>
    /\ paymentDb = <<>>
    /\ ret = [kind |-> "None"]

IdleBalance ==
    /\ funds = NoFunds
    /\ bpc = "idle"
    /\ idx = 0
    /\ acc = ZeroTotals

IdleConv == conv = NoConv

\* Lnd::new / Bitcoind::new: `child: None`; nothing has been called yet.
NoOutcome == [call |-> "new", result |-> "Ok", prev |-> "none"]

\* No supervisor has been constructed yet.
NoSupervisor ==
    /\ supervisor = "none"
    /\ child = {}
    /\ spawned = 0
    /\ killed = {}
    /\ outcome = [call |-> "none", result |-> "Ok", prev |-> "none"]
    /\ alive = FALSE

InitTasks ==
    /\ adapter \in Adapters
    /\ lock = {}
    /\ inflight = {}
    /\ pc = [t \in Tasks |-> "idle"]
    /\ op = [t \in Tasks |-> "none"]
    /\ args = [t \in Tasks |-> "valid"]
    /\ count = [t \in Tasks |-> 0]
    /\ attempts = [t \in Tasks |-> 0]
    /\ slept = [t \in Tasks |-> 0]
    /\ lastResp = [t \in Tasks |-> NoResp]
    /\ result = [t \in Tasks |-> "none"]
    /\ neverSynced = [t \in Tasks |-> TRUE]

\* The polling and status operations do no arithmetic: the build profile is
\* immaterial to them.
Init ==
    /\ InitTasks /\ IdleStatus /\ IdleBalance /\ overflowChecks = FALSE
    /\ IdleConv /\ NoSupervisor

(***************************************************************************)
(* The steps of a task.                                                    *)
(***************************************************************************)
\* A task calls an operation: `let mut count = 0;` and the first lock().await.
Call(t) ==
    /\ pc[t] = "idle"
    /\ \E o \in OpsOf(adapter) :
        /\ o \in PollOps => Cardinality({u \in Tasks : op[u] \in PollOps}) < MaxPollers
        /\ op' = [op EXCEPT ![t] = o]
        /\ \E a \in ArgsOf(adapter, o) : args' = [args EXCEPT ![t] = a]
        /\ pc' = [pc EXCEPT ![t] = "acquire"]
    /\ count' = [count EXCEPT ![t] = 0]
    /\ attempts' = [attempts EXCEPT ![t] = 0]
    /\ slept' = [slept EXCEPT ![t] = 0]
    /\ lastResp' = [lastResp EXCEPT ![t] = NoResp]
    /\ result' = [result EXCEPT ![t] = "none"]
    /\ neverSynced' = [neverSynced EXCEPT ![t] = TRUE]
    /\ UNCHANGED <<adapter, lock, inflight, statusVars, balanceVars, sideVars>>

\* lock().await completes and the request is sent: .call(request)
Send(t) ==
    /\ pc[t] = "acquire"
    /\ args[t] \in {"valid", "overflow"}
    /\ LockFree
    /\ lock' = {t}
    /\ inflight' = inflight \cup {t}
    /\ attempts' = [attempts EXCEPT ![t] = @ + 1]
    /\ pc' = [pc EXCEPT ![t] = "await"]
    /\ UNCHANGED <<adapter, op, args, count, slept, lastResp, result, neverSynced>>
    /\ UNCHANGED <<statusVars, balanceVars, sideVars>>

\* The arguments do not convert: a malformed peer id or payment hash returns
\* the parse error (`?`), an overflowing amount panics in a build with overflow
\* checks.  No request is sent.  Where the conversion is written after
\* lock().await the guard is taken first and dropped on the way out.
Reject(t) ==
    /\ pc[t] = "acquire"
    /\ args[t] # "valid"
    /\ ConvertsUnderLock(adapter, op[t]) => LockFree
    /\ result' = [result EXCEPT ![t] = IF args[t] = "malformed" THEN "Err" ELSE "Panic"]
    /\ pc' = [pc EXCEPT ![t] = "done"]
    /\ UNCHANGED <<adapter, lock, inflight, op, args, count, attempts, slept,
                   lastResp, neverSynced>>
    /\ UNCHANGED <<statusVars, balanceVars, sideVars>>

\* A single-shot operation that asks again after a transport error.
ReceiveSingleRetrying(t) ==
    /\ pc[t] = "await"
    /\ op[t] \in SingleOps
    /\ \E r \in Responses(adapter, op[t]) :
        /\ lastResp' = [lastResp EXCEPT ![t] = r]
        /\ IF r.kind = "TransportError"
           THEN /\ pc' = [pc EXCEPT ![t] = "acquire"]
                /\ UNCHANGED result
           ELSE /\ pc' = [pc EXCEPT ![t] = "done"]
                /\ result' = [result EXCEPT ![t] = SingleResult(adapter, op[t], r)]
    /\ inflight' = inflight \ {t}
    /\ lock' = {}
    /\ UNCHANGED <<adapter, op, args, count, attempts, slept, neverSynced>>
    /\ UNCHANGED <<statusVars, balanceVars, sideVars>>

\* The answer of a single-shot operation arrives; the match on it decides the
\* result and the guard is dropped on the way out.
ReceiveSingle(t) ==
    /\ pc[t] = "await"
    /\ op[t] \in SingleOps
    /\ \E r \in Responses(adapter, op[t]) :
        /\ lastResp' = [lastResp EXCEPT ![t] = r]
        /\ result' = [result EXCEPT ![t] = SingleResult(adapter, op[t], r)]
    /\ inflight' = inflight \ {t}
    /\ lock' = {}
    /\ pc' = [pc EXCEPT ![t] = "done"]
    /\ UNCHANGED <<adapter, op, args, count, attempts, slept, neverSynced>>
    /\ UNCHANGED <<statusVars, balanceVars, sideVars>>

\* A loop that treats a failed request like an unmet predicate: it counts
\* the attempt, sleeps and asks again.
ReceivePollRetrying(t) ==
    /\ pc[t] = "await"
    /\ op[t] \in PollOps
    /\ inflight' = inflight \ {t}
    /\ \E r \in Responses(adapter, op[t]) :
        /\ lastResp' = [lastResp EXCEPT ![t] = r]
        /\ neverSynced' = [neverSynced EXCEPT ![t] = @ /\ ~NodeSynced(r)]
        /\ IF ~IsFailure(r) /\ PollDone(adapter, op[t], r)
           THEN /\ result' = [result EXCEPT ![t] = "Ok"]
                /\ pc' = [pc EXCEPT ![t] = "done"]
                /\ lock' = {}
                /\ UNCHANGED count
           ELSE /\ count' = [count EXCEPT ![t] = @ + 1]
                /\ pc' = [pc EXCEPT ![t] = "sleep"]
                /\ lock' = IF KeepsLockInSleep(adapter, op[t]) THEN {t} ELSE {}
                /\ UNCHANGED result
    /\ UNCHANGED <<adapter, op, args, attempts, slept, statusVars, balanceVars, sideVars>>

\* The answer of one polling attempt arrives.  A failure returns at once
\* (`?` / bail!); the predicate returns Ok(()); otherwise count += 1 and the
\* task goes to sleep.
ReceivePoll(t) ==
    /\ pc[t] = "await"
    /\ op[t] \in PollOps
    /\ inflight' = inflight \ {t}
    /\ \E r \in Responses(adapter, op[t]) :
        /\ lastResp' = [lastResp EXCEPT ![t] = r]
        /\ neverSynced' = [neverSynced EXCEPT ![t] = @ /\ ~NodeSynced(r)]
        /\ IF IsFailure(r)
           THEN /\ result' = [result EXCEPT ![t] = "Err"]
                /\ pc' = [pc EXCEPT ![t] = "done"]
                /\ lock' = {}
                /\ UNCHANGED count
           ELSE IF PollDone(adapter, op[t], r)
           THEN /\ result' = [result EXCEPT ![t] = "Ok"]
                /\ pc' = [pc EXCEPT ![t] = "done"]
                /\ lock' = {}
                /\ UNCHANGED count
           ELSE /\ count' = [count EXCEPT ![t] = @ + 1]
                /\ pc' = [pc EXCEPT ![t] = "sleep"]
                /\ lock' = IF KeepsLockInSleep(adapter, op[t]) THEN {t} ELSE {}
                /\ UNCHANGED result
    /\ UNCHANGED <<adapter, op, args, attempts, slept, statusVars, balanceVars, sideVars>>

\* A guard that outlives the iteration: the next lock().await is made while
\* the task still holds the lock.
WakeKeepingLock(t) ==
    /\ pc[t] = "sleep"
    /\ slept' = [slept EXCEPT ![t] = @ + SleepSecs]
    /\ lock' = lock
    /\ lastResp' = [lastResp EXCEPT ![t] = NoResp]
    /\ IF count[t] < MaxAttempts
       THEN /\ pc' = [pc EXCEPT ![t] = "acquire"]
            /\ UNCHANGED result
       ELSE /\ pc' = [pc EXCEPT ![t] = "done"]
            /\ result' = [result EXCEPT ![t] = "Timeout"]
    /\ UNCHANGED <<adapter, inflight, op, args, count, attempts, neverSynced>>
    /\ UNCHANGED <<statusVars, balanceVars, sideVars>>

\* A loop bound one short: `while count < 99`.
WakeOneShort(t) ==
    /\ pc[t] = "sleep"
    /\ slept' = [slept EXCEPT ![t] = @ + SleepSecs]
    /\ lock' = lock \ {t}
    /\ lastResp' = [lastResp EXCEPT ![t] = NoResp]
    /\ IF count[t] < MaxAttempts - 1
       THEN /\ pc' = [pc EXCEPT ![t] = "acquire"]
            /\ UNCHANGED result
       ELSE /\ pc' = [pc EXCEPT ![t] = "done"]
            /\ result' = [result EXCEPT ![t] = "Timeout"]
    /\ UNCHANGED <<adapter, inflight, op, args, count, attempts, neverSynced>>
    /\ UNCHANGED <<statusVars, balanceVars, sideVars>>

\* The 2-second sleep ends, the iteration ends (dropping its locals) and the
\* loop condition `count < 100` is tested: another attempt, or the bail! after
\* the loop.
Wake(t) ==
    /\ pc[t] = "sleep"
    /\ slept' = [slept EXCEPT ![t] = @ + SleepSecs]
    /\ lock' = lock \ {t}
    /\ lastResp' = [lastResp EXCEPT ![t] = NoResp]
    /\ IF count[t] < MaxAttempts
       THEN /\ pc' = [pc EXCEPT ![t] = "acquire"]
            /\ UNCHANGED result
       ELSE /\ pc' = [pc EXCEPT ![t] = "done"]
            /\ result' = [result EXCEPT ![t] = "Timeout"]
    /\ UNCHANGED <<adapter, inflight, op, args, count, attempts, neverSynced>>
    /\ UNCHANGED <<statusVars, balanceVars, sideVars>>

\* The caller takes the result; the task may call again.
Return(t) ==
    /\ pc[t] = "done"
    /\ pc' = [pc EXCEPT ![t] = "idle"]
    /\ op' = [op EXCEPT ![t] = "none"]
    /\ args' = [args EXCEPT ![t] = "valid"]
    /\ count' = [count EXCEPT ![t] = 0]
    /\ attempts' = [attempts EXCEPT ![t] = 0]
    /\ slept' = [slept EXCEPT ![t] = 0]
    /\ lastResp' = [lastResp EXCEPT ![t] = NoResp]
    /\ result' = [result EXCEPT ![t] = "none"]
    /\ neverSynced' = [neverSynced EXCEPT ![t] = TRUE]
    /\ UNCHANGED <<adapter, lock, inflight, statusVars, balanceVars, sideVars>>

\* Any number of tasks share one adapter instance.
Next ==
    \E t \in Tasks :
        \/ Call(t)
        \/ Send(t)
        \/ Reject(t)
        \/ ReceiveSingle(t)
        \/ ReceivePoll(t)
        \/ Wake(t)
        \/ Return(t)

Spec == Init /\ [][Next]_vars

\* One caller on the adapter.
Caller == CHOOSE t \in Tasks : \A u \in Tasks : t <= u

SoloNext ==
    \/ Call(Caller)
    \/ Send(Caller)
    \/ Reject(Caller)
    \/ ReceiveSingle(Caller)
    \/ ReceivePoll(Caller)
    \/ Wake(Caller)
    \/ Return(Caller)

SpecSolo == Init /\ [][SoloNext]_vars


(***************************************************************************)
(* Convergence polling.                                                    *)
(***************************************************************************)
AllActive(chans) == \A i \in 1..Len(chans) : chans[i]

Returned(t, o) == op[t] = o /\ pc[t] = "done"

\* C1: wait_chain_sync returns Ok only on an attempt whose node-info response
\* has both the lightning-state sync warning and the chain sync warning
\* absent; it never returns Ok while either warning is still reported.
C1_OkOnlyWhenBothWarningsAbsent ==
    \A t \in Tasks :
        (Returned(t, "wait_chain_sync") /\ result[t] = "Ok")
            => NodeSynced(lastResp[t])

\* The attempt counting of wait_chain_sync taken by itself: a timeout is
\* returned after exactly MaxAttempts requests, each followed by a sleep, and
\* no request is sent once count has reached MaxAttempts.
ChainSyncTimeoutIsExact ==
    \A t \in Tasks :
        op[t] = "wait_chain_sync" =>
            /\ result[t] = "Timeout" =>
                 /\ attempts[t] = MaxAttempts
                 /\ slept[t] = MaxAttempts * SleepSecs
            /\ pc[t] \in {"acquire", "await"} => count[t] < MaxAttempts
            /\ attempts[t] <= MaxAttempts

\* C2: wait_chain_sync returns success on its first attempt, with no delay,
\* when the node reports it is synced; when the node never reports synced it
\* returns a timeout error after exactly 100 failed node-info attempts, each
\* followed by a 2-second delay, never fewer, never more, and never earlier
\* than the last attempt.
C2_ImmediateSuccessOrExactTimeout ==
    \A t \in Tasks :
        Returned(t, "wait_chain_sync") =>
            /\ (attempts[t] = 1 /\ NodeSynced(lastResp[t])) =>
                    (result[t] = "Ok" /\ slept[t] = 0)
            /\ (neverSynced[t] /\ ~IsFailure(lastResp[t])) =>
                    /\ result[t] = "Timeout"
                    /\ attempts[t] = MaxAttempts
                    /\ slept[t] = MaxAttempts * SleepSecs
            /\ result[t] = "Timeout" =>
                    /\ neverSynced[t]
                    /\ attempts[t] = MaxAttempts
                    /\ slept[t] = MaxAttempts * SleepSecs

\* C3: wait_channels_active returns success on an attempt exactly when the
\* channel list of that attempt is empty or every channel in it is active; an
\* attempt that sees an inactive channel does not succeed and polling goes on
\* (the task sleeps, then asks again), and after 100 such attempts in a row
\* the operation fails with a timeout.
C3_ChannelsActiveExactly ==
    \A t \in Tasks :
        op[t] = "wait_channels_active" =>
            /\ (pc[t] = "done" /\ result[t] = "Ok") =>
                    /\ lastResp[t].kind = "ListChannels"
                    /\ AllActive(lastResp[t].known)
                    /\ AllActive(lastResp[t].channels)
            /\ (lastResp[t].kind = "ListChannels" /\ AllActive(lastResp[t].known)) =>
                    (pc[t] = "done" /\ result[t] = "Ok")
            /\ (lastResp[t].kind = "ListChannels" /\ ~AllActive(lastResp[t].known)) =>
                    /\ pc[t] = "sleep"
                    /\ result[t] = "none"
                    /\ count[t] = attempts[t]
            /\ pc[t] = "sleep" =>
                    (lastResp[t].kind = "ListChannels" /\ ~AllActive(lastResp[t].known))
            /\ (pc[t] = "done" /\ result[t] = "Timeout") =>
                    (attempts[t] = MaxAttempts /\ count[t] = MaxAttempts)
            /\ (pc[t] = "done" /\ count[t] = MaxAttempts) => result[t] = "Timeout"
            /\ pc[t] \in {"acquire", "await"} => count[t] < MaxAttempts

\* Success after at least one attempt that saw an inactive channel.
C3_Witness ==
    \E t \in Tasks :
        /\ Returned(t, "wait_channels_active")
        /\ result[t] = "Ok"
        /\ attempts[t] > 1
        /\ Len(lastResp[t].known) > 0

\* The timeout of wait_channels_active is reached.
ChannelsTimeoutReached ==
    \E t \in Tasks : Returned(t, "wait_channels_active") /\ result[t] = "Timeout"

(***************************************************************************)
(* The connection-handle lock.                                             *)
(***************************************************************************)
\* C10: on one adapter instance the lock is held from the moment a request is
\* sent until its response is received, so at most one request is in flight
\* on the handle: no second request is sent before the previous response.
C10_OneRequestInFlight ==
    /\ Cardinality(inflight) <= 1
    /\ \A t \in inflight : lock = {t} /\ pc[t] = "await"
    /\ \A t \in Tasks : pc[t] = "await" => t \in inflight

\* One request is in flight while another task waits for the lock.
C10_Witness ==
    \E t \in Tasks, u \in Tasks :
        /\ t # u
        /\ t \in inflight
        /\ pc[u] = "acquire"


\* C11: while wait_chain_sync or wait_channels_active is in its 2-second
\* delay between attempts it holds no connection-handle lock, so that a task
\* starting an operation on the same adapter during the delay gets the lock
\* without waiting for the delay to elapse.
C11_NoLockDuringSleep ==
    \A t \in Tasks : pc[t] = "sleep" => t \notin lock

\* The same for the three loops whose guard is a temporary of the call.
SleepsUnlockedElsewhere ==
    \A t \in Tasks :
        (pc[t] = "sleep" /\ ~KeepsLockInSleep(adapter, op[t])) => lock # {t}

\* A task waits for the lock while the poller sleeps holding it.
BlockedBySleeper ==
    \E t \in Tasks, u \in Tasks :
        /\ t # u
        /\ pc[t] = "sleep"
        /\ lock = {t}
        /\ pc[u] = "acquire"

\* C13: when a request made inside wait_chain_sync or wait_channels_active
\* fails with a transport error or is answered with a response of an
\* unexpected kind on attempt k, the operation returns that error at attempt
\* k: no further attempt, no sleep after it, never a retry and never a
\* timeout.
C13_PollErrorReturnsAtOnce ==
    \A t \in Tasks :
        op[t] \in PollOps =>
            /\ IsFailure(lastResp[t]) =>
                /\ pc[t] = "done"
                /\ result[t] = "Err"
                /\ attempts[t] = count[t] + 1
                /\ slept[t] = SleepSecs * (attempts[t] - 1)
                /\ t \notin lock
            /\ result[t] = "Timeout" => ~IsFailure(lastResp[t])

\* A polling loop has returned the error of its third or a later attempt.
C13_Witness ==
    \E t \in Tasks :
        /\ op[t] \in PollOps
        /\ pc[t] = "done"
        /\ IsFailure(lastResp[t])
        /\ result[t] = "Err"
        /\ attempts[t] >= 3

\* The polled condition, read off a response: the node is synced, or every
\* channel the node has is active.
ConditionHolds(r) ==
    CASE r.kind \in {"Getinfo", "GetInfo"} -> NodeSynced(r)
      [] r.kind = "ListChannels" -> AllActive(r.known)
      [] OTHER -> FALSE

\* C17: when the polled condition first holds on attempt k (1 <= k <= 100),
\* wait_chain_sync and wait_channels_active return success having issued
\* exactly k requests and slept k - 1 times: nothing is sent and no delay is
\* taken after that attempt, and a condition that holds only on the 100th
\* attempt still gives success; a timeout comes only after a 100th attempt.
C17_SuccessOnFirstHold ==
    \A t \in Tasks :
        op[t] \in PollOps =>
            /\ ConditionHolds(lastResp[t]) =>
                /\ pc[t] = "done"
                /\ result[t] = "Ok"
                /\ attempts[t] \in 1..MaxAttempts
                /\ attempts[t] = count[t] + 1
                /\ slept[t] = SleepSecs * (attempts[t] - 1)
            /\ (pc[t] = "done" /\ result[t] = "Timeout") => attempts[t] = MaxAttempts

\* The condition held on the 100th attempt only, and the call succeeded.
C17_Witness ==
    \E t \in Tasks :
        /\ op[t] \in PollOps
        /\ pc[t] = "done"
        /\ ConditionHolds(lastResp[t])
        /\ result[t] = "Ok"
        /\ attempts[t] = MaxAttempts
        /\ slept[t] = SleepSecs * (MaxAttempts - 1)

\* The steps of a task that go through the lock, and those that are its own.
LockStep(t) == Send(t) \/ Reject(t)
OwnStep(t) == ReceiveSingle(t) \/ ReceivePoll(t) \/ Wake(t)

\* The lock is fair (tokio's Mutex queues its waiters), a request that has
\* been sent is answered, and a sleep ends.  Whether and when a caller calls
\* again or takes its result is up to the caller.
Fairness ==
    \A t \in Tasks : SF_vars(LockStep(t)) /\ WF_vars(OwnStep(t))

SpecFair == Init /\ [][Next]_vars /\ Fairness

\* A task holds the guard only while its request is in flight or, inside a
\* loop iteration, while it sleeps: never while it asks for the lock and
\* never after it has returned.
LockDiscipline ==
    /\ Cardinality(lock) <= 1
    /\ \A t \in Tasks :
        /\ pc[t] \in {"idle", "acquire", "done"} => t \notin lock
        /\ pc[t] = "await" => lock = {t}
        /\ t \in lock => pc[t] \in {"await", "sleep"}

\* C18: no operation asks for the connection-handle lock while it holds it,
\* and every operation has released it on every return path (success,
\* transport error, wrong response kind, missing field, rejected argument,
\* timeout); so with several tasks calling operations on one adapter no task
\* waits for the lock for ever: every operation that has been called
\* completes, provided its requests are answered.
C18_LockReleasedAndCompletion ==
    /\ []LockDiscipline
    /\ \A t \in Tasks : (pc[t] = "acquire") ~> (pc[t] = "done")

\* A task waits for the lock while another task's operation is returning an
\* error, then gets the lock.
C18_Witness ==
    \E t \in Tasks, u \in Tasks :
        /\ t # u
        /\ pc[t] = "done"
        /\ result[t] \in {"Err", "Timeout", "Panic"}
        /\ pc[u] = "await"
        /\ lock = {u}

(***************************************************************************)
(* Single-shot operations.                                                 *)
(***************************************************************************)
\* C12 as stated: every operation other than the two wait_* operations has
\* issued exactly one backend request when it returns, whether it succeeded
\* or failed, and never a second one.
C12_ExactlyOneRequest ==
    \A t \in Tasks :
        op[t] \in SingleOps =>
            /\ attempts[t] <= 1
            /\ pc[t] = "done" => attempts[t] = 1

\* C12 as amended: every operation other than the two wait_* operations
\* issues at most one backend request per call and never repeats a failed
\* one; it issues exactly one when its arguments convert, and a call that
\* returns without a request is one that ended on its own arguments (a peer
\* id or payment hash that does not parse returns the error, an overflowing
\* amount may panic) before anything was sent.
C12_AtMostOneRequest ==
    \A t \in Tasks :
        op[t] \in SingleOps =>
            /\ attempts[t] <= 1
            /\ pc[t] = "await" => attempts[t] = 1
            /\ (pc[t] = "done" /\ args[t] = "valid") => attempts[t] = 1
            /\ (pc[t] = "done" /\ args[t] = "malformed") =>
                    (attempts[t] = 0 /\ result[t] = "Err")
            /\ (pc[t] = "done" /\ attempts[t] = 0) =>
                    /\ args[t] # "valid"
                    /\ lastResp[t] = NoResp
                    /\ result[t] \in {"Err", "Panic"}
            /\ (pc[t] = "done" /\ attempts[t] = 1) => lastResp[t] # NoResp

\* A single-shot call whose one request failed has returned the error.
C12_Witness ==
    \E t \in Tasks :
        /\ op[t] \in SingleOps
        /\ pc[t] = "done"
        /\ lastResp[t] = TransportError
        /\ result[t] = "Err"
        /\ attempts[t] = 1

\* A call has returned on its arguments without sending anything.
RejectedWithoutRequest ==
    \E t \in Tasks :
        /\ op[t] \in SingleOps
        /\ pc[t] = "done"
        /\ args[t] = "malformed"
        /\ attempts[t] = 0

\* C14: for every operation of the CLN adapter, a response whose kind is not
\* the one matching the request makes the operation return an error; it
\* never returns a success value or a default built from such a response.
C14_WrongKindIsError ==
    \A t \in Tasks :
        (adapter = "CLN" /\ pc[t] = "done" /\ lastResp[t] = WrongKind)
            => result[t] = "Err"

\* The same for every CLN operation but list_transactions.
WrongKindIsErrorElsewhere ==
    \A t \in Tasks :
        (adapter = "CLN" /\ pc[t] = "done" /\ lastResp[t] = WrongKind
            /\ op[t] # "list_transactions") => result[t] = "Err"

(***************************************************************************)
(* Status normalisation: check_incoming_payment_status and                 *)
(* check_outgoing_payment_status (LND: check_incoming_invoice and          *)
(* check_outgoing_invoice).                                                *)
(***************************************************************************)
Hashes == 1..NumHashes

Ok(s) == [kind |-> "Ok", status |-> s]
Err == [kind |-> "Err"]
Panic == [kind |-> "Panic"]

\* cln_rpc ListinvoicesInvoicesStatus and ListpaysPaysStatus.
ClnInvoiceStatuses == {"UNPAID", "EXPIRED", "PAID"}
ClnPayStatuses == {"COMPLETE", "PENDING", "FAILED"}

\* lnrpc Invoice.state: OPEN = 0, SETTLED = 1, CANCELED = 2, ACCEPTED = 3.
LndInvoiceStates == 0..3
\* lnrpc Payment.status: UNKNOWN = 0, IN_FLIGHT = 1, SUCCEEDED = 2, FAILED = 3.
\* Both fields are plain i32 on the wire; the match arms `_ =>` take any other value.
LndWireCodes == 0..4

RawInvoiceStatuses(a) == IF a = "CLN" THEN ClnInvoiceStatuses ELSE LndWireCodes
RawPaymentStatuses(a) == IF a = "CLN" THEN ClnPayStatuses ELSE LndWireCodes

RecordLists(S) ==
    UNION {[1..n -> [payment_hash : Hashes, status : S]] : n \in 0..MaxRecords}

Matching(db, h) == SelectSeq(db, LAMBDA r : r.payment_hash = h)

Nets(a) == {"ok", "transport_error"} \cup (IF a = "CLN" THEN {"wrong_kind"} ELSE {})

\* A mapping that forgets the expired case.
ClnIncomingStatusNoExpired(s) ==
    CASE s = "UNPAID" -> "Unpaid"
      [] s = "EXPIRED" -> "Unpaid"
      [] s = "PAID" -> "Paid"

\* ln_client/cln_client.rs:416-420
ClnIncomingStatus(s) ==
    CASE s = "UNPAID" -> "Unpaid"
      [] s = "EXPIRED" -> "Expired"
      [] s = "PAID" -> "Paid"

\* ln_client/cln_client.rs:447-451
ClnOutgoingStatus(s) ==
    CASE s = "COMPLETE" -> "Paid"
      [] s = "PENDING" -> "Pending"
      [] s = "FAILED" -> "Failed"

\* lnd_client.rs:260-270
LndIncomingStatus(state) ==
    CASE state = 0 -> Ok("Unpaid")
      [] state = 1 -> Ok("Paid")
      [] state = 2 -> Ok("Unpaid")
      [] state = 3 -> Ok("Unpaid")
      [] OTHER -> Err

\* lnd_client.rs:304-314
LndOutgoingStatus(status) ==
    CASE status = 0 -> Ok("Unpaid")
      [] status = 1 -> Ok("Paid")
      [] status = 2 -> Ok("Unpaid")
      [] status = 3 -> Ok("Unpaid")
      [] OTHER -> Err

\* ln_client/cln_client.rs:398-430.  ListInvoices is asked for the hash; the
\* first invoice of the answer decides, and no invoice is an error.
ClnCheckIncoming(h, db, net) ==
    IF net # "ok" THEN Err
    ELSE LET invoices == Matching(db, h)
         IN  IF Len(invoices) = 0 THEN Err
             ELSE Ok(ClnIncomingStatus(invoices[1].status))

\* ln_client/cln_client.rs:432-461.  No pay for the hash is Unpaid.
ClnCheckOutgoing(h, db, net) ==
    IF net # "ok" THEN Err
    ELSE LET pays == Matching(db, h)
         IN  IF Len(pays) = 0 THEN Ok("Unpaid")
             ELSE Ok(ClnOutgoingStatus(pays[1].status))

\* lnd_client.rs:244-271.  lookup_invoice answers with an error status when
\* the node holds no invoice for r_hash, as it does when the transport fails;
\* the result is unwrapped.
LndCheckIncoming(h, db, net) ==
    LET invoices == Matching(db, h)
    IN  IF net # "ok" \/ Len(invoices) = 0 THEN Panic
        ELSE LndIncomingStatus(invoices[1].status)

\* lnd_client.rs:273-315.  list_payments returns the node's payments; the
\* adapter filters them by hash and wants exactly one.
LndCheckOutgoing(h, db, net) ==
    IF net # "ok" THEN Panic
    ELSE LET invoice == Matching(db, h)
         IN  IF Len(invoice) # 1 THEN Err
             ELSE LndOutgoingStatus(invoice[1].status)

NoQuery == [op |-> "none", payment_hash |-> 0, net |-> "ok"]

CheckIncoming ==
    /\ query = NoQuery
    /\ \E h \in Hashes, db \in RecordLists(RawInvoiceStatuses(adapter)), net \in Nets(adapter) :
            /\ query' = [op |-> "check_incoming_payment_status", payment_hash |-> h, net |-> net]
            /\ invoiceDb' = db
            /\ paymentDb' = <<>>
            /\ ret' = IF adapter = "CLN" THEN ClnCheckIncoming(h, db, net)
                                         ELSE LndCheckIncoming(h, db, net)
            /\ UNCHANGED <<pollVars, balanceVars, sideVars>>

CheckOutgoing ==
    /\ query = NoQuery
    /\ \E h \in Hashes, db \in RecordLists(RawPaymentStatuses(adapter)), net \in Nets(adapter) :
            /\ query' = [op |-> "check_outgoing_payment_status", payment_hash |-> h, net |-> net]
            /\ paymentDb' = db
            /\ invoiceDb' = <<>>
            /\ ret' = IF adapter = "CLN" THEN ClnCheckOutgoing(h, db, net)
                                         ELSE LndCheckOutgoing(h, db, net)
            /\ UNCHANGED <<pollVars, balanceVars, sideVars>>

\* The caller takes the status; the next check starts afresh.
StatusReturn ==
    /\ query # NoQuery
    /\ query' = NoQuery
    /\ invoiceDb' = <<>>
    /\ paymentDb' = <<>>
    /\ ret' = [kind |-> "None"]
    /\ UNCHANGED <<pollVars, balanceVars, sideVars>>

StatusNext == CheckIncoming \/ CheckOutgoing \/ StatusReturn

SpecStatus == Init /\ [][StatusNext]_vars

Asked(o) == query.op = o /\ query.net = "ok"

Found(db) == Len(Matching(db, query.payment_hash)) > 0

FirstFound(db) == Matching(db, query.payment_hash)[1]

\* C4: for a payment hash the backend holds no outgoing payment record for,
\* check_outgoing_payment_status returns Unpaid, never an error, on the CLN
\* adapter and on the LND adapter.
C4_UnknownOutgoingIsUnpaid ==
    (Asked("check_outgoing_payment_status") /\ ~Found(paymentDb))
        => ret = Ok("Unpaid")

\* C5: for a payment hash the backend holds no invoice record for,
\* check_incoming_payment_status returns an error value: never a status, and
\* never by aborting the calling task.
C5_UnknownIncomingIsError ==
    (Asked("check_incoming_payment_status") /\ ~Found(invoiceDb))
        => ret = Err

\* What the backend reports about a payment, by raw status.
PaymentReport(a, raw) ==
    IF a = "CLN"
    THEN CASE raw = "COMPLETE" -> "complete"
           [] raw = "PENDING" -> "pending"
           [] raw = "FAILED" -> "failed"
    ELSE CASE raw = 2 -> "complete"
           [] raw = 1 -> "pending"
           [] raw = 3 -> "failed"
           [] OTHER -> "other"

\* C6: for an outgoing payment record found for the queried hash, the status
\* check returns Paid when the backend reports the payment complete, Pending
\* when pending, Failed when failed; a found record is never reported Unpaid;
\* on both backends.
C6_FoundOutgoingMapsByReport ==
    (/\ Asked("check_outgoing_payment_status")
     /\ Found(paymentDb)
     /\ PaymentReport(adapter, FirstFound(paymentDb).status) # "other") =>
        LET report == PaymentReport(adapter, FirstFound(paymentDb).status)
        IN  /\ ret # Ok("Unpaid")
            /\ report = "complete" => ret = Ok("Paid")
            /\ report = "pending" => ret = Ok("Pending")
            /\ report = "failed" => ret = Ok("Failed")

\* The incoming check applied to one found invoice of raw status s.
IncomingOf(a, s) ==
    IF a = "CLN" THEN Ok(ClnIncomingStatus(s)) ELSE LndIncomingStatus(s)

KnownInvoiceStatuses(a) == IF a = "CLN" THEN ClnInvoiceStatuses ELSE LndInvoiceStates

\* C7 as stated: for an invoice record found for the queried hash the
\* incoming check maps the raw status one-to-one, so no two distinct raw
\* statuses give the same canonical value, and the result is one of Unpaid,
\* Expired, Paid.
C7_IncomingOneToOne ==
    (Asked("check_incoming_payment_status") /\ Found(invoiceDb)
        /\ FirstFound(invoiceDb).status \in KnownInvoiceStatuses(adapter)) =>
        /\ ret.kind = "Ok"
        /\ ret.status \in {"Unpaid", "Expired", "Paid"}
        /\ \A s \in KnownInvoiceStatuses(adapter) \ {FirstFound(invoiceDb).status} :
                IncomingOf(adapter, s) # ret

\* C7 as amended: on the CLN adapter the raw status of the found invoice maps
\* one-to-one, UNPAID to Unpaid, EXPIRED to Expired, PAID to Paid; on the LND
\* adapter Settled maps to Paid and Open, Canceled and Accepted all map to
\* Unpaid, and any other state value is an error; on both adapters a returned
\* status is one of Unpaid, Expired, Paid.
C7_IncomingMapping ==
    (Asked("check_incoming_payment_status") /\ Found(invoiceDb)) =>
        LET raw == FirstFound(invoiceDb).status
        IN  /\ adapter = "CLN" =>
                /\ raw = "UNPAID" => ret = Ok("Unpaid")
                /\ raw = "EXPIRED" => ret = Ok("Expired")
                /\ raw = "PAID" => ret = Ok("Paid")
            /\ adapter = "LND" =>
                /\ raw = 1 => ret = Ok("Paid")
                /\ raw \in {0, 2, 3} => ret = Ok("Unpaid")
                /\ raw \notin 0..3 => ret = Err
            /\ ret.kind = "Ok" => ret.status \in {"Unpaid", "Expired", "Paid"}

\* A canceled LND invoice has been looked up and reported Unpaid.
C7_Witness ==
    /\ adapter = "LND"
    /\ Asked("check_incoming_payment_status")
    /\ Found(invoiceDb)
    /\ FirstFound(invoiceDb).status = 2
    /\ ret = Ok("Unpaid")


(***************************************************************************)
(* Balance aggregation: ClnClient::balance (and the older get_balance).    *)
(***************************************************************************)
OutputStatuses == {"UNCONFIRMED", "IMMATURE", "CONFIRMED", "SPENT"}

AmountValues == {Msat(0), Msat(300), Msat(500), TwoTo63}

OutputRecords == [status : OutputStatuses, amount_msat : AmountValues]
ChannelRecords == [our_amount_msat : AmountValues]

FundsResponses ==
    [outputs : UNION {[1..n -> OutputRecords] : n \in 0..MaxOutputs},
     channels : UNION {[1..n -> ChannelRecords] : n \in 0..MaxFundChannels}]

\* Which totals an output of a given status is added to.
\* ln_client/cln_client.rs:234-246 (cln_client.rs:173-185)
AddsToTotal(status) == status \in {"UNCONFIRMED", "IMMATURE", "CONFIRMED"}
AddsToSpendable(status) == status = "CONFIRMED"

\* One iteration of `for output in funds_response.outputs`: the new totals,
\* and whether one of its additions overflowed 64 bits.
AccumulateOutput(a, output) ==
    LET t == IF AddsToTotal(output.status)
             THEN AddWithCarry(a.on_chain_total, output.amount_msat)
             ELSE [sum |-> a.on_chain_total, carry |-> 0]
        s == IF AddsToSpendable(output.status)
             THEN AddWithCarry(a.on_chain_spendable, output.amount_msat)
             ELSE [sum |-> a.on_chain_spendable, carry |-> 0]
    IN  [totals |-> [a EXCEPT !.on_chain_total = t.sum, !.on_chain_spendable = s.sum],
         overflow |-> t.carry + s.carry > 0]

\* One iteration of `for channel in funds_response.channels`.
\* ln_client/cln_client.rs:250-252
AccumulateChannel(a, channel) ==
    LET l == AddWithCarry(a.ln, channel.our_amount_msat)
    IN  [totals |-> [a EXCEPT !.ln = l.sum], overflow |-> l.carry > 0]

\* The ListFunds request is answered.
BalanceCall ==
    /\ bpc = "idle"
    /\ \E net \in Nets("CLN"), f \in FundsResponses, oc \in BOOLEAN :
        /\ overflowChecks' = oc
        /\ IF net = "ok"
           THEN /\ funds' = f
                /\ bpc' = "outputs"
           ELSE /\ funds' = NoFunds
                /\ bpc' = "err"
    /\ idx' = 0
    /\ acc' = ZeroTotals
    /\ UNCHANGED <<pollVars, statusVars, sideVars>>

\* An overflowing addition panics in a build with overflow checks and wraps
\* in one without.
Accumulate(step, next) ==
    /\ idx' = idx + 1
    /\ IF step.overflow /\ overflowChecks
       THEN /\ bpc' = "panic"
            /\ UNCHANGED acc
       ELSE /\ bpc' = next
            /\ acc' = step.totals

OutputStep ==
    /\ bpc = "outputs"
    /\ idx < Len(funds.outputs)
    /\ Accumulate(AccumulateOutput(acc, funds.outputs[idx + 1]), "outputs")
    /\ UNCHANGED <<funds, overflowChecks, pollVars, statusVars, sideVars>>

OutputsDone ==
    /\ bpc = "outputs"
    /\ idx = Len(funds.outputs)
    /\ bpc' = "channels"
    /\ idx' = 0
    /\ UNCHANGED <<funds, acc, overflowChecks, pollVars, statusVars, sideVars>>

ChannelStep ==
    /\ bpc = "channels"
    /\ idx < Len(funds.channels)
    /\ Accumulate(AccumulateChannel(acc, funds.channels[idx + 1]), "channels")
    /\ UNCHANGED <<funds, overflowChecks, pollVars, statusVars, sideVars>>

\* Balance { on_chain_spendable, on_chain_total, ln } is returned.
BalanceReturn ==
    /\ bpc = "channels"
    /\ idx = Len(funds.channels)
    /\ bpc' = "done"
    /\ UNCHANGED <<funds, idx, acc, overflowChecks, pollVars, statusVars, sideVars>>

\* The caller takes the balance (or the error).
BalanceReset ==
    /\ bpc \in {"done", "err", "panic"}
    /\ bpc' = "idle"
    /\ funds' = NoFunds
    /\ idx' = 0
    /\ acc' = ZeroTotals
    /\ overflowChecks' = FALSE
    /\ UNCHANGED <<pollVars, statusVars, sideVars>>

BalanceNext ==
    \/ BalanceCall
    \/ OutputStep
    \/ OutputsDone
    \/ ChannelStep
    \/ BalanceReturn
    \/ BalanceReset

BalanceInit == Init /\ adapter = "CLN"

SpecBalance == BalanceInit /\ [][BalanceNext]_vars

\* The exact sum of a sequence of amounts: how many times 2^64 (hi) and the
\* rest (lo).
RECURSIVE ExactSum(_)
ExactSum(amounts) ==
    IF Len(amounts) = 0 THEN [hi |-> 0, lo |-> Zero]
    ELSE LET rest == ExactSum(Tail(amounts))
             a == AddWithCarry(rest.lo, Head(amounts))
         IN  [hi |-> rest.hi + a.carry, lo |-> a.sum]

Exactly(v) == [hi |-> 0, lo |-> v]

AmountsOf(outputs, statuses) ==
    LET chosen == SelectSeq(outputs, LAMBDA o : o.status \in statuses)
    IN  [i \in 1..Len(chosen) |-> chosen[i].amount_msat]

ChannelAmounts(channels) == [i \in 1..Len(channels) |-> channels[i].our_amount_msat]

\* C8: for every list of output records (any statuses, any non-negative
\* amounts) and every list of channels, the Balance returned by balance() has
\* on_chain_spendable <= on_chain_total, and so have the running totals after
\* each record is accumulated.
C8_SpendableAtMostTotal ==
    bpc \in {"outputs", "channels", "done"}
        => LessEq(acc.on_chain_spendable, acc.on_chain_total)

\* C9: balance() returns on_chain_total equal to the sum of the amounts of
\* the Unconfirmed, Immature and Confirmed outputs, on_chain_spendable equal
\* to the sum of the Confirmed outputs, and ln equal to the sum of the
\* channels' own amounts; Spent outputs add to none of them and outputs never
\* change ln; Confirmed(500) with Unconfirmed(300) gives spendable 500 and
\* total 800.
C9_BalanceIsTheSums ==
    /\ bpc = "done" =>
        /\ Exactly(acc.on_chain_total) =
              ExactSum(AmountsOf(funds.outputs, {"UNCONFIRMED", "IMMATURE", "CONFIRMED"}))
        /\ Exactly(acc.on_chain_spendable) =
              ExactSum(AmountsOf(funds.outputs, {"CONFIRMED"}))
        /\ Exactly(acc.ln) = ExactSum(ChannelAmounts(funds.channels))
        /\ funds.outputs = <<[status |-> "CONFIRMED", amount_msat |-> Msat(500)],
                             [status |-> "UNCONFIRMED", amount_msat |-> Msat(300)]>>
              => (acc.on_chain_spendable = Msat(500) /\ acc.on_chain_total = Msat(800))
    /\ bpc = "outputs" => acc.ln = Zero

\* No sum of the response exceeds 64 bits.
SumsFit ==
    /\ ExactSum(AmountsOf(funds.outputs, {"UNCONFIRMED", "IMMATURE", "CONFIRMED"})).hi = 0
    /\ ExactSum(ChannelAmounts(funds.channels)).hi = 0

\* Where no sum exceeds 64 bits the aggregation is as C8 and C9 say, and the
\* call does not panic.
BalanceRightWhenSumsFit ==
    SumsFit => (C8_SpendableAtMostTotal /\ C9_BalanceIsTheSums /\ bpc # "panic")

\* The example of C9 has been aggregated.
BalanceExampleReached ==
    /\ bpc = "done"
    /\ funds.outputs = <<[status |-> "CONFIRMED", amount_msat |-> Msat(500)],
                         [status |-> "UNCONFIRMED", amount_msat |-> Msat(300)]>>
    /\ acc.on_chain_spendable = Msat(500)
    /\ acc.on_chain_total = Msat(800)

(***************************************************************************)
(* Amounts: the request create_invoice and open_channel build from the     *)
(* caller's satoshi amounts.                                               *)
(***************************************************************************)
\* The three clients: the LightningClient impl of ln_client/cln_client.rs,
\* the inherent impl of cln_client.rs, and LndClient.
Clients == {"ClnTrait", "ClnInherent", "Lnd"}

\* Satoshi amounts a caller can pass: small ones, 100000, and the values
\* around the two limits of the multiplication by 1000:
\* floor((2^63 - 1) / 1000) and the next, floor((2^64 - 1) / 1000) and the
\* next, 2^63 and 2^64 - 1.
SatAmounts ==
    {Msat(0), Msat(1), Msat(1000), <<0, 0, 1, 34464>>,
     <<32, 50331, 42467, 21495>>, <<32, 50331, 42467, 21496>>,
     <<65, 35127, 19398, 42991>>, <<65, 35127, 19398, 42992>>,
     TwoTo63, <<65535, 65535, 65535, 65535>>}

PushAmounts == {None, Some(Msat(1000)), Some(<<65, 35127, 19398, 42992>>), Some(TwoTo63)}

\* a * 1000 over the naturals: the low 64 bits and what is carried out of them.
MulBy1000(a) ==
    LET p4 == a[4] * 1000
        p3 == a[3] * 1000 + (p4 \div LimbBase)
        p2 == a[2] * 1000 + (p3 \div LimbBase)
        p1 == a[1] * 1000 + (p2 \div LimbBase)
    IN  [product |-> <<p1 % LimbBase, p2 % LimbBase, p3 % LimbBase, p4 % LimbBase>>,
         carry |-> p1 \div LimbBase]

\* `1_000 * sat` (Amount::from_sat) and `amount * 1_000` on u64: a product
\* beyond 64 bits panics in a build with overflow checks and wraps in one
\* without.
SatToMsat(sat, checks) ==
    LET m == MulBy1000(sat)
    IN  IF m.carry > 0 /\ checks
        THEN [ok |-> FALSE, msat |-> Zero]
        ELSE [ok |-> TRUE, msat |-> m.product]

\* `x as i64` keeps the 64 bits; the value is negative when the top bit is set.
IsNegative(bits) == bits[1] >= 2^15

PanicRequest == [kind |-> "Panic"]

\* ln_client/cln_client.rs:275-278: Some(amount) is AmountOrAny::Amount of
\* Amount::from_sat(amount), None is AmountOrAny::Any.
ClnInvoiceRequest(amount_sat, checks) ==
    IF ~amount_sat.some
    THEN [kind |-> "Invoice", any |-> TRUE, amount_msat |-> Zero]
    ELSE LET m == SatToMsat(amount_sat.value, checks)
         IN  IF ~m.ok THEN PanicRequest
             ELSE [kind |-> "Invoice", any |-> FALSE, amount_msat |-> m.msat]

\* cln_client.rs:207-212: create_invoice(amount: u64), always
\* AmountOrAny::Amount(Amount::from_sat(amount)).
ClnInherentInvoiceRequest(amount, checks) ==
    LET m == SatToMsat(amount, checks)
    IN  IF ~m.ok THEN PanicRequest
        ELSE [kind |-> "Invoice", any |-> FALSE, amount_msat |-> m.msat]

\* lnd_client.rs:154-158: create_invoice(amount: u64),
\* value_msat: (amount * 1_000) as i64.
LndInvoiceRequest(amount, checks) ==
    LET m == SatToMsat(amount, checks)
    IN  IF ~m.ok THEN PanicRequest
        ELSE [kind |-> "AddInvoice", value_msat |-> m.msat]

\* The amount parameter of the two u64 create_invoice functions has no
\* absent value: a caller without an amount has 0 to pass, the value LND
\* itself reads as "any amount".
U64Arg(amount_sat) == IF amount_sat.some THEN amount_sat.value ELSE Zero

CreateInvoiceRequest(c, amount_sat, checks) ==
    CASE c = "ClnTrait" -> ClnInvoiceRequest(amount_sat, checks)
      [] c = "ClnInherent" -> ClnInherentInvoiceRequest(U64Arg(amount_sat), checks)
      [] c = "Lnd" -> LndInvoiceRequest(U64Arg(amount_sat), checks)

\* ln_client/cln_client.rs:188-192 (cln_client.rs:113-117):
\* amount: Amount::from_sat(amount_sat), push_msat: push_amount.map(Amount::from_sat)
ClnFundChannelRequest(amount_sat, push_amount, checks) ==
    LET a == SatToMsat(amount_sat, checks)
        p == SatToMsat(push_amount.value, checks)
    IN  IF ~a.ok \/ (push_amount.some /\ ~p.ok) THEN PanicRequest
        ELSE [kind |-> "FundChannel", amount |-> a.msat,
              push_msat |-> IF push_amount.some THEN Some(p.msat) ELSE None]

\* lnd_client.rs:107-109: push_sat = push_amount.unwrap_or_default() as i64,
\* local_funding_amount = amount_sat as i64.
LndOpenChannelRequest(amount_sat, push_amount) ==
    [kind |-> "OpenChannel", local_funding_amount |-> amount_sat,
     push_sat |-> IF push_amount.some THEN push_amount.value ELSE Zero]

OpenChannelRequest(c, amount_sat, push_amount, checks) ==
    IF c = "Lnd" THEN LndOpenChannelRequest(amount_sat, push_amount)
                 ELSE ClnFundChannelRequest(amount_sat, push_amount, checks)

\* create_invoice builds its request.
BuildInvoice ==
    /\ conv = NoConv
    /\ \E c \in Clients, a \in {None} \cup {Some(v) : v \in SatAmounts}, checks \in BOOLEAN :
        conv' = [op |-> "create_invoice", client |-> c, amount_sat |-> a,
                 push_amount |-> None, checks |-> checks,
                 request |-> CreateInvoiceRequest(c, a, checks)]
    /\ UNCHANGED <<pollVars, statusVars, balanceVars, superVars>>

\* open_channel builds its request.
BuildOpenChannel ==
    /\ conv = NoConv
    /\ \E c \in Clients, a \in SatAmounts, p \in PushAmounts, checks \in BOOLEAN :
        conv' = [op |-> "open_channel", client |-> c, amount_sat |-> Some(a),
                 push_amount |-> p, checks |-> checks,
                 request |-> OpenChannelRequest(c, a, p, checks)]
    /\ UNCHANGED <<pollVars, statusVars, balanceVars, superVars>>

\* The request has been sent; the next call starts afresh.
ConvReturn ==
    /\ conv # NoConv
    /\ conv' = NoConv
    /\ UNCHANGED <<pollVars, statusVars, balanceVars, superVars>>

AmountsNext == BuildInvoice \/ BuildOpenChannel \/ ConvReturn

SpecAmounts == Init /\ [][AmountsNext]_vars

\* C15: create_invoice passes "any amount" to the backend in a form distinct
\* from a zero amount: the request built for an any-amount invoice differs
\* from the request built for a 0-satoshi invoice, on every client.
C15_AnyAmountDistinctFromZero ==
    (conv.op = "create_invoice" /\ ~conv.amount_sat.some) =>
        conv.request # CreateInvoiceRequest(conv.client, Some(Zero), conv.checks)

\* The same for the create_invoice that takes Option<u64>.
AnyAmountDistinctWithOption ==
    (conv.op = "create_invoice" /\ ~conv.amount_sat.some /\ conv.client = "ClnTrait") =>
        /\ conv.request # CreateInvoiceRequest(conv.client, Some(Zero), conv.checks)
        /\ conv.request.any

\* The amounts a built request carries: the caller's value, the bits sent,
\* whether the field is in millisatoshi, and whether it is a signed field.
SentAmounts ==
    LET r == conv.request
        ofPush(sent, msat, signed) ==
            IF conv.push_amount.some
            THEN {[from |-> conv.push_amount.value, sent |-> sent,
                   msat |-> msat, signed |-> signed]}
            ELSE {}
    IN  CASE r.kind = "Invoice" ->
                IF r.any THEN {}
                ELSE {[from |-> conv.amount_sat.value, sent |-> r.amount_msat,
                       msat |-> TRUE, signed |-> FALSE]}
          [] r.kind = "AddInvoice" ->
                IF conv.amount_sat.some
                THEN {[from |-> conv.amount_sat.value, sent |-> r.value_msat,
                       msat |-> TRUE, signed |-> TRUE]}
                ELSE {}
          [] r.kind = "FundChannel" ->
                {[from |-> conv.amount_sat.value, sent |-> r.amount,
                  msat |-> TRUE, signed |-> FALSE]}
                    \cup ofPush(r.push_msat.value, TRUE, FALSE)
          [] r.kind = "OpenChannel" ->
                {[from |-> conv.amount_sat.value, sent |-> r.local_funding_amount,
                  msat |-> FALSE, signed |-> TRUE]}
                    \cup ofPush(r.push_sat, FALSE, TRUE)
          [] OTHER -> {}

\* The value sent is the caller's amount in the field's unit, and not negative.
SentExactly(e) ==
    /\ IF e.msat
       THEN MulBy1000(e.from).carry = 0 /\ e.sent = MulBy1000(e.from).product
       ELSE e.sent = e.from
    /\ e.signed => ~IsNegative(e.sent)

\* C16: for every satoshi amount of the unsigned 64-bit range passed to
\* create_invoice or open_channel, the amount sent to the backend is a
\* non-negative integer equal to the caller's amount in the unit of the
\* field (amount_sat * 1000 for millisatoshi fields, amount_sat for satoshi
\* fields): the multiplication and the conversion to a signed integer never
\* wrap, change sign or abort the call.
C16_AmountsSentExactly ==
    conv.op # "none" =>
        /\ conv.request.kind # "Panic"
        /\ \A e \in SentAmounts : SentExactly(e)

\* The amounts for which neither the product nor the signed field overflows.
FitsSigned(v) == ~IsNegative(v)
FitsMsat(v, signed) ==
    MulBy1000(v).carry = 0 /\ (signed => ~IsNegative(MulBy1000(v).product))

\* Within those amounts the request carries exactly the caller's amounts.
AmountsExactWhenTheyFit ==
    (/\ conv.op # "none"
     /\ conv.amount_sat.some =>
            IF conv.client = "Lnd" /\ conv.op = "open_channel"
            THEN FitsSigned(conv.amount_sat.value)
            ELSE FitsMsat(conv.amount_sat.value, conv.client = "Lnd")
     /\ conv.push_amount.some =>
            IF conv.client = "Lnd" THEN FitsSigned(conv.push_amount.value)
            ELSE FitsMsat(conv.push_amount.value, FALSE))
        => C16_AmountsSentExactly

(***************************************************************************)
(* The process supervisors Lnd (lnd.rs) and Bitcoind (bitcoind.rs).        *)
(***************************************************************************)
Outcome(call, res) == [call |-> call, result |-> res, prev |-> outcome.call]

\* start_lnd / start_bitcoind: cmd.spawn()? then self.child = Some(child).
\* The handle held before is overwritten; dropping a Child does not kill it.
Start ==
    /\ alive
    /\ spawned < MaxSpawns
    /\ \/ /\ outcome' = Outcome("start", "Err")
          /\ UNCHANGED <<child, spawned>>
       \/ /\ spawned' = spawned + 1
          /\ child' = {spawned + 1}
          /\ outcome' = Outcome("start", "Ok")
    /\ UNCHANGED <<supervisor, killed, alive, pollVars, statusVars, balanceVars, conv>>

\* The body of stop_lnd / stop_bitcoind: self.child.take(), then kill()? on
\* the child taken, or bail!("No child to kill").
StopBody(call) ==
    /\ child' = {}
    /\ killed' = killed \cup child
    /\ IF child = {}
       THEN outcome' = Outcome(call, "NoChild")
       ELSE \E res \in {"Ok", "KillErr"} : outcome' = Outcome(call, res)

\* A stop that kills through a borrowed handle and leaves it in place.
StopKeepingHandle ==
    /\ alive
    /\ child' = child
    /\ killed' = killed \cup child
    /\ IF child = {}
       THEN outcome' = Outcome("stop", "NoChild")
       ELSE \E res \in {"Ok", "KillErr"} : outcome' = Outcome("stop", res)
    /\ UNCHANGED <<supervisor, spawned, alive, pollVars, statusVars, balanceVars, conv>>

Stop ==
    /\ alive
    /\ StopBody("stop")
    /\ UNCHANGED <<supervisor, spawned, alive, pollVars, statusVars, balanceVars, conv>>

\* impl Drop for Lnd: stop_lnd(), its error logged.  Bitcoind has no Drop:
\* its fields are dropped, the handle with them.
Drop ==
    /\ alive
    /\ alive' = FALSE
    /\ IF supervisor = "Lnd"
       THEN StopBody("drop")
       ELSE /\ child' = {}
            /\ outcome' = Outcome("drop", "Ok")
            /\ UNCHANGED killed
    /\ UNCHANGED <<supervisor, spawned, pollVars, statusVars, balanceVars, conv>>

\* A new supervisor is constructed.
New ==
    /\ ~alive
    /\ supervisor' \in {"Lnd", "Bitcoind"}
    /\ child' = {}
    /\ spawned' = 0
    /\ killed' = {}
    /\ outcome' = NoOutcome
    /\ alive' = TRUE
    /\ UNCHANGED <<pollVars, statusVars, balanceVars, conv>>

SupervisorNext == Start \/ Stop \/ Drop \/ New

SpecSupervisor == Init /\ [][SupervisorNext]_vars

\* C19: on the Bitcoind and the Lnd supervisor a stop call succeeds only if
\* a child handle is held; after any stop call has returned, with success or
\* with an error, no child handle is held; so a stop on a supervisor that
\* was never started, and a second stop in a row, both fail with "No child
\* to kill" and leave the state as it was.
C19_StopTakesTheHandle ==
    [][Stop =>
        /\ outcome'.call = "stop"
        /\ outcome'.result = "Ok" => child # {}
        /\ child' = {}
        /\ child = {} =>
            /\ outcome'.result = "NoChild"
            /\ UNCHANGED <<child, spawned, killed, alive, supervisor>>
        /\ (spawned = 0 \/ outcome.call = "stop") => outcome'.result = "NoChild"
      ]_vars

\* A started supervisor has been stopped twice in a row: the second stop
\* found no child.
C19_Witness ==
    /\ alive
    /\ spawned > 0
    /\ outcome.call = "stop"
    /\ outcome.prev = "stop"
    /\ outcome.result = "NoChild"
    /\ child = {}

\* The processes spawned on which kill() has not been called.
Unkilled == (1..spawned) \ killed

\* C20: for every sequence of start_lnd, stop_lnd and drop on an Lnd
\* supervisor, at most one spawned process is un-killed at any time and it is
\* the one whose handle is held; when the supervisor has been dropped every
\* process it spawned has been sent a kill, and the drop returns without
\* panicking, also when no child is held.
C20_EverySpawnedProcessKilled ==
    supervisor = "Lnd" =>
        /\ Unkilled \subseteq child
        /\ Cardinality(Unkilled) <= 1
        /\ ~alive =>
            /\ Unkilled = {}
            /\ outcome.call = "drop"
            /\ outcome.result \in {"Ok", "KillErr", "NoChild"}

\* As long as start_lnd is not called while a handle is held, no process is
\* left behind.
StartedOnce ==
    (supervisor = "Lnd" /\ spawned <= 1) => C20_EverySpawnedProcessKilled

====
